---- MODULE Spec2Model ----
(***************************************************************************)
(* The content-generation route: POST (the request orchestrator),          *)
(* analyzeBrandVoice (the brand voice analyzer) and                        *)
(* generateContentForFormat (the per-format generator), with the model     *)
(* gateway (anthropic.messages.create) as the environment.                 *)
(*                                                                         *)
(* One behaviour is one request.  JavaScript runs a handler to its next    *)
(* await without interleaving, so every action below is one such segment:  *)
(* a POST_ action runs POST from its entry to its first await or return,   *)
(* and each gateway completion runs the continuation that it wakes up.     *)
(*                                                                         *)
(* JavaScript values.  An object is a record whose DOMAIN is the set of    *)
(* keys that are present.  A value whose type varies at run time is        *)
(* tagged: Str(s) is a string, Num(n) a number, Undefined and Null the two *)
(* empty values.  A text is a sequence of words.                           *)
(*                                                                         *)
(* The brand voice calibration screen (BrandVoiceUpload, shown by          *)
(* ContentStudio while step is "brand-voice") is the second part: its      *)
(* handlers are the actions of UploadSpec, and the route is its            *)
(* environment there.  ReadSpec is the same screen filled by file uploads: *)
(* a FileReader's onload runs the handleExampleChange of the render in     *)
(* which the upload began.  StudioSpec is ContentStudio itself with the    *)
(* result cards of ContentDashboard; the calibration screen is its         *)
(* environment there and hands over a calibration through onComplete.  The *)
(* suggestion list under the industry field is display state that no       *)
(* handler reads, and it is left out.                                      *)
(***************************************************************************)
EXTENDS Integers, Sequences, FiniteSets, TLC

VARIABLES
    apiKey,         \* process.env.ANTHROPIC_API_KEY is set
    body,           \* the request body as sent (InvalidJson when it does not parse)
    pc,             \* where POST is: "received", "analyzeOnly", "analyze", "generate", "responded"
    examplesToUse,  \* POST's examplesToUse
    brandVoice,     \* POST's brandVoice
    analysis,       \* the analyzeBrandVoice invocation of this request
    generation,     \* generationPromises: one promise per requested format
    response,       \* what POST returned
    gatewayLog,     \* every anthropic.messages.create call made, in order
    step,           \* ContentStudio's step: "input", "brand-voice" or "results"
    uploadExamples, \* BrandVoiceUpload's examples: its three slots
    isAnalyzing,    \* BrandVoiceUpload's isAnalyzing
    uploadRequests, \* the fetches handleAnalyze has made, each pending or settled
    uploadAlert,    \* the alert shown last (<<>> when none was)
    calibration,    \* ContentStudio's brandVoiceExamples and brandVoice, as
                    \* [examples, analysis]; Null stands for [] and null
    uploadReads,    \* the FileReader reads handleFileUpload has started
    topic,          \* ContentStudio's topic
    industry,       \* ContentStudio's industry
    selectedFormats, \* ContentStudio's selectedFormats
    generatedContent, \* ContentStudio's generatedContent
    isGenerating,   \* ContentStudio's isGenerating
    generateRequests \* the fetches of handleGenerate that are in flight

\* The state of the route, and the state of the screen
routeVars == <<apiKey, body, pc, examplesToUse, brandVoice, analysis, generation,
               response, gatewayLog>>
studioVars == <<topic, industry, selectedFormats, generatedContent, isGenerating,
                generateRequests>>
uiVars == <<step, uploadExamples, isAnalyzing, uploadRequests, uploadAlert, calibration,
            uploadReads, studioVars>>

vars == <<routeVars, uiVars>>

----------------------------------------------------------------------------
(* Bounds of the model *)

MaxFormats == 2
MaxRequests == 1
MaxUploads == 2
MaxGenerations == 2

----------------------------------------------------------------------------
(* JavaScript values *)

Undefined == [undefined |-> TRUE]
Null == [null |-> TRUE]
Str(s) == [str |-> s]
Num(n) == [num |-> n]

IsStr(v) == DOMAIN v = {"str"}
IsObject(v) == DOMAIN v \cap {"str", "num", "undefined", "null"} = {}

\* JavaScript truthiness of a tagged value or an object
Truthy(v) == v \notin {Undefined, Null, Str(""), Num(0)}

\* o.k: Undefined when the key is absent (also on a string or a number)
Field(o, k) == IF k \in DOMAIN o THEN o[k] ELSE Undefined

Has(o, k) == k \in DOMAIN o

\* The sequences over S of length lo..hi
SeqsOf(S, lo, hi) == UNION {[1..n -> S] : n \in lo..hi}

\* An optional request field: absent, or one value of S
Opt(S) == {{}} \cup {{v} : v \in S}

----------------------------------------------------------------------------
(* The profile (BrandVoiceAnalysis) *)

\* The fallback literal of analyzeBrandVoice
DefaultProfile ==
    [tone |-> "professional", style |-> "clear and concise",
     terminology |-> <<>>, structure |-> "standard"]

\* interface BrandVoiceAnalysis: the four required fields
ProfileFields == {"tone", "style", "terminology", "structure"}

\* A value has the declared shape of a BrandVoiceAnalysis
IsBrandVoiceAnalysis(v) == IsObject(v) /\ ProfileFields \subseteq DOMAIN v

----------------------------------------------------------------------------
(* Brand voice examples *)

\* The legacy wrapping { type: 'text', content: ex }
WrapText(ex) == [type |-> "text", content |-> ex]

\* ex.type === t
TypeIs(ex, t) == Has(ex, "type") /\ ex.type = t

\* POST's normalisation of body.brandVoiceExamples into examplesToUse
NormalizeExamples(b) ==
    IF Len(IF Has(b, "brandVoiceExamples") THEN b.brandVoiceExamples ELSE <<>>) > 0
    THEN IF IsStr(b.brandVoiceExamples[1])
         THEN [i \in 1..Len(b.brandVoiceExamples) |-> WrapText(b.brandVoiceExamples[i])]
         ELSE b.brandVoiceExamples
    ELSE <<>>

\* The filter of analyzeBrandVoice: ex && (ex.content || ex.text)
KeepExample(ex) ==
    Truthy(ex) /\ (Truthy(Field(ex, "content")) \/ Truthy(Field(ex, "text")))

\* analyzeBrandVoice's processedExamples
processedExamples(examples) ==
    SelectSeq([i \in 1..Len(examples) |->
                  IF IsStr(examples[i]) THEN WrapText(examples[i]) ELSE examples[i]],
              KeepExample)

\* s.trim() is non-empty, for a string value
NonBlank(v) == IsStr(v) /\ v.str \notin {"", " "}

\* The data URLs the model uses, taken apart: "data:" type ";base64," data
DataUrlParts ==
    ("data:image/jpeg;base64,QUJD" :> [type |-> "image/jpeg", data |-> "QUJD"])
    @@ ("data:image/png;base64,REVG" :> [type |-> "image/png", data |-> "REVG"])

\* s.startsWith('data:'), for a string value
StartsWithData(v) == v.str \in DOMAIN DataUrlParts

\* imageData after the prefix is cut off: split(',')[1] when the string has a
\* comma, which of the strings here only the data URLs have
imageData(content) ==
    IF content.str \in DOMAIN DataUrlParts
    THEN Str(DataUrlParts[content.str].data)
    ELSE content

\* let mediaType = ex.mimeType || "image/png", and the data URL's own type
\* only if mediaType is still falsy after that
mediaType(ex) ==
    LET first == IF Truthy(Field(ex, "mimeType")) THEN ex.mimeType ELSE Str("image/png")
    IN IF ~Truthy(first) /\ StartsWithData(ex.content)
       THEN Str(DataUrlParts[ex.content.str].type)
       ELSE first

\* The blocks one processed example adds to messageContent (i is its position)
ExampleBlocks(ex, i) ==
    LET imagePart ==
            IF (TypeIs(ex, "image") \/ TypeIs(ex, "mixed")) /\ Truthy(Field(ex, "content"))
            THEN IF ~IsStr(ex.content)
                 THEN \* imageData.includes is not a function: the catch block
                      <<[type |-> "text", label |-> "image upload failed", example |-> i]>>
                 ELSE LET imageText == IF Truthy(Field(ex, "textContent"))
                                       THEN ex.textContent ELSE Str("")
                      IN <<[type |-> "image", example |-> i,
                            media_type |-> mediaType(ex),
                            data |-> imageData(ex.content)]>> \o
                         (IF ~IsStr(imageText)
                          THEN \* imageText.trim is not a function: the catch block
                               <<[type |-> "text", label |-> "image upload failed",
                                  example |-> i]>>
                          ELSE IF NonBlank(imageText)
                          THEN <<[type |-> "text", label |-> "image with description",
                                  example |-> i]>>
                          ELSE <<[type |-> "text", label |-> "image", example |-> i]>>)
            ELSE <<>>
        textContent ==
            IF TypeIs(ex, "mixed")
            THEN IF Truthy(Field(ex, "textContent")) THEN ex.textContent
                 ELSE Field(ex, "content")
            ELSE Field(ex, "content")
        textPart ==
            IF (TypeIs(ex, "text") \/ TypeIs(ex, "mixed") \/ ~Has(ex, "type"))
               /\ NonBlank(textContent)
            THEN <<[type |-> "text",
                    label |-> IF TypeIs(ex, "mixed") THEN "text description for image"
                              ELSE "example",
                    example |-> i]>>
            ELSE <<>>
    IN imagePart \o textPart

\* const hasImages = processedExamples.some(ex => ex.type === 'image')
hasImages(processed) == \E i \in 1..Len(processed) : TypeIs(processed[i], "image")

\* messageContent: the prompt analyzeBrandVoice sends to the gateway
messageContent(examples) ==
    LET processed == processedExamples(examples)
        B[i \in 0..Len(processed)] ==
            IF i = 0 THEN <<>> ELSE B[i-1] \o ExampleBlocks(processed[i], i)
    IN <<[type |-> "text", label |-> "instruction", visual |-> hasImages(processed)]>>
       \o B[Len(processed)]
       \o <<[type |-> "text", label |-> "respond with json"]>>

\* analyzeBrandVoice up to its await: it returns at once, or it calls the gateway
AnalyzeReturnsAtOnce(examples) == Len(examples) = 0

----------------------------------------------------------------------------
(* The model's reply to the analysis prompt, and the JSON taken from it.   *)
(* A reply text is a sequence of lexical units: a code fence, a brace, a   *)
(* complete object member, a scalar JSON value, or a run of prose.         *)

\* The three-backtick code fence, with or without its json tag
Fence == "<fence>"
LBrace == "{"
RBrace == "}"
Prose == "Here is the analysis"

\* The members a reply may hold: unit |-> <<key, value>>
Members ==
    [tone |-> <<"tone", "casual">>,
     style |-> <<"style", "short paragraphs">>,
     structure |-> <<"structure", "lists">>,
     terms2 |-> <<"terminology", <<Str("alpha"), Str("beta")>> >>,
     terms0 |-> <<"terminology", <<>> >>,
     termsNum |-> <<"terminology", <<Str("alpha"), Num(7)>> >>]

\* The scalar JSON texts a reply may hold: unit |-> value
Scalars == [n42 |-> Num(42), null |-> Null]

IsMember(u) == u \in DOMAIN Members
IsScalar(u) == u \in DOMAIN Scalars

\* text.match(/```(?:json)?\s*(\{[\s\S]*\})\s*```/): the group, or <<>> for no match.
\* The leftmost fence directly followed by "{", and from there the longest span
\* ending in a "}" that is directly followed by a fence.
FencedGroup(t) ==
    LET ends(i) == {j \in (i+2)..(Len(t)-1) : t[j] = RBrace /\ t[j+1] = Fence}
        starts == {i \in 1..Len(t) :
                      /\ t[i] = Fence
                      /\ i + 1 <= Len(t) /\ t[i+1] = LBrace
                      /\ ends(i) # {}}
    IN IF starts = {} THEN <<>>
       ELSE LET i == CHOOSE a \in starts : \A b \in starts : a <= b
                j == CHOOSE a \in ends(i) : \A b \in ends(i) : a >= b
            IN SubSeq(t, i+1, j)

\* text.match(/\{[\s\S]*\}/): from the first "{" to the last "}" after it
ObjectSpan(t) ==
    LET opens == {i \in 1..Len(t) : t[i] = LBrace}
    IN IF opens = {} THEN <<>>
       ELSE LET i == CHOOSE a \in opens : \A b \in opens : a <= b
                closes == {j \in (i+1)..Len(t) : t[j] = RBrace}
            IN IF closes = {} THEN <<>>
               ELSE SubSeq(t, i, CHOOSE a \in closes : \A b \in closes : a >= b)

\* The extraction with its fence step only: no search for an object in the text
ExtractJson_FenceOnly(t) ==
    LET fenced == FencedGroup(t)
    IN IF fenced # <<>> THEN fenced ELSE t

\* The text handed to JSON.parse
ExtractJson(t) ==
    LET fenced == FencedGroup(t)
        text1 == IF fenced # <<>> THEN fenced ELSE t
        span == ObjectSpan(text1)
    IN IF span # <<>> THEN span ELSE text1

\* JSON.parse: [ok |-> TRUE, value |-> v], or [ok |-> FALSE] for a SyntaxError.
\* A later member with the same key replaces an earlier one.
JsonParse(t) ==
    IF Len(t) = 1 /\ IsScalar(t[1])
    THEN [ok |-> TRUE, value |-> Scalars[t[1]]]
    ELSE IF /\ Len(t) >= 2 /\ t[1] = LBrace /\ t[Len(t)] = RBrace
            /\ \A i \in 2..(Len(t)-1) : IsMember(t[i])
    THEN LET keys == {Members[t[i]][1] : i \in 2..(Len(t)-1)}
             last(k) == CHOOSE i \in 2..(Len(t)-1) :
                           /\ Members[t[i]][1] = k
                           /\ \A j \in 2..(Len(t)-1) : Members[t[j]][1] = k => j <= i
         IN [ok |-> TRUE, value |-> [k \in keys |-> Members[t[last(k)]][2]]]
    ELSE [ok |-> FALSE]

\* The reply texts the gateway draws from
FullMembers == <<"tone", "style", "terms2", "structure">>
AnalysisReplies ==
    { <<LBrace>> \o FullMembers \o <<RBrace>>,
      <<Fence, LBrace, "tone", "style", "terms0", "structure", RBrace, Fence>>,
      <<Prose, LBrace>> \o FullMembers \o <<RBrace, Prose>>,
      <<Prose>>,
      <<LBrace, Prose, RBrace>>,
      <<LBrace, "tone", RBrace>>,
      <<LBrace, "tone", "style", "termsNum", "structure", RBrace>>,
      <<"n42">>,
      <<"null">>,
      <<LBrace>> \o FullMembers \o <<RBrace, Prose, LBrace, "tone", RBrace>>,
      <<LBrace>> \o FullMembers \o <<RBrace, Prose, RBrace>> }

----------------------------------------------------------------------------
(* analyzeBrandVoice after its await *)

\* What the gateway may do with the analysis call: throw, or return a message
\* whose content list is empty, starts with a non-text block, or starts with text
AnalysisOutcomes ==
    {[kind |-> "throw", message |-> "overloaded"], [kind |-> "empty"], [kind |-> "nontext"]}
    \cup {[kind |-> "text", text |-> t] : t \in AnalysisReplies}

\* The try block around the gateway call and the parse: it returns a value,
\* throws, or runs to its end without returning
AnalysisTry(o) ==
    IF o.kind = "throw" THEN [type |-> "throw", message |-> o.message]
    ELSE IF o.kind = "empty"
    THEN \* content is undefined: content.type throws a TypeError
         [type |-> "throw", message |-> "Cannot read properties of undefined"]
    ELSE IF o.kind = "nontext" THEN [type |-> "normal"]
    ELSE LET parsed == JsonParse(ExtractJson(o.text))
         IN IF parsed.ok THEN [type |-> "return", value |-> parsed.value]
            ELSE [type |-> "throw", message |-> "SyntaxError"]

\* analyzeBrandVoice without its catch block: what the try block throws goes out
analyzeBrandVoice_NoCatch(o) ==
    LET c == AnalysisTry(o)
    IN IF c.type = "normal" THEN [type |-> "return", value |-> DefaultProfile] ELSE c

\* The completion of analyzeBrandVoice once the gateway call has ended o: the
\* catch block logs and falls through to the fallback return
analyzeBrandVoice(o) ==
    LET c == AnalysisTry(o)
    IN IF c.type = "return" THEN c ELSE [type |-> "return", value |-> DefaultProfile]

----------------------------------------------------------------------------
(* generateContentForFormat *)

ScoreBase == 70
ScoreSpan == 25
ScoreCap == 95
ScoreNoTerms == 75

\* A score is a fraction in lowest terms, so that equal scores are equal values
RECURSIVE Gcd(_, _)
Gcd(a, b) == IF b = 0 THEN a ELSE Gcd(b, a % b)
Frac(n, d) == [num |-> n \div Gcd(n, d), den |-> d \div Gcd(n, d)]
FracLeq(x, y) == x.num * y.den <= y.num * x.den
FracMin(x, y) == IF FracLeq(x, y) THEN x ELSE y

\* s.toLowerCase() on the words the model uses
Lower(w) == CASE w = "Alpha" -> "alpha" [] w = "Beta" -> "beta" [] OTHER -> w

\* a occurs in b as a substring, on the (lower case) words the model uses
IsSubstring(a, b) == a = "" \/ a = b \/ <<a, b>> \in {<<"alpha", "alphabet">>}

\* contentText.includes(term.toLowerCase()), for a string term
TextIncludes(text, term) ==
    \E i \in 1..Len(text) : IsSubstring(Lower(term.str), Lower(text[i]))

\* The score with the count of matching terms where their fraction belongs
consistencyScore_CountNotFraction(terminology, text) ==
    LET n == Len(terminology)
        matchingTerms == Cardinality({i \in 1..n : TextIncludes(text, terminology[i])})
    IN FracMin(Frac(ScoreCap, 1), Frac(ScoreBase + ScoreSpan * matchingTerms, 1))

\* min(95, 70 + (matchingTerms / terminology.length) * 25)
consistencyScore(terminology, text) ==
    LET n == Len(terminology)
        matchingTerms == Cardinality({i \in 1..n : TextIncludes(text, terminology[i])})
    IN FracMin(Frac(ScoreCap, 1), Frac(ScoreBase * n + ScoreSpan * matchingTerms, n))

\* The template literals before the try block: brandVoice.terminology.join
\* throws a TypeError when a truthy brandVoice has no terminology
PromptThrows(bv) == Truthy(bv) /\ ~Has(bv, "terminology")

\* The keys of the formatInstructions table
formatInstructions ==
    {"blog", "linkedin", "twitter", "google-ads", "instagram", "facebook",
     "email", "newsletter"}

\* The entry of the catch block
ErrorEntry(format, message) ==
    [format |-> format,
     content |-> <<"Error generating", format, "content:", message,
                   "Please check your API key and try again.">>]

\* The entry of the fallback return
FallbackEntry(format) ==
    [format |-> format,
     content |-> <<"Error generating", format, "content. Please try again.">>]

\* What the gateway may do with a generation call: throw, or return a message
\* whose content list is empty, starts with a non-text block, or starts with text
GenerationTexts == {<<"Alpha", "and", "Beta">>, <<"alphabet">>, <<"gamma">>}
GenerationOutcomes ==
    {[kind |-> "throw", message |-> "overloaded"], [kind |-> "empty"], [kind |-> "nontext"]}
    \cup {[kind |-> "text", text |-> t] : t \in GenerationTexts}

\* generateContentForFormat without the base score of a profile that has no terms
generateContentForFormat_NoBaseScore(format, bv, o) ==
    IF o.kind = "throw" THEN ErrorEntry(format, o.message)
    ELSE IF o.kind = "empty"
    THEN \* content is undefined: content.type throws a TypeError, inside the try block
         ErrorEntry(format, "Cannot read properties of undefined")
    ELSE IF o.kind = "nontext" THEN FallbackEntry(format)
    ELSE IF Truthy(bv) /\ Has(bv, "terminology") /\ Len(bv.terminology) > 0
    THEN IF \E i \in 1..Len(bv.terminology) : ~IsStr(bv.terminology[i])
         THEN ErrorEntry(format, "term.toLowerCase is not a function")
         ELSE [format |-> format, content |-> o.text,
               consistencyScore |-> consistencyScore(bv.terminology, o.text)]
    ELSE [format |-> format, content |-> o.text]

\* The entry generateContentForFormat returns once its gateway call has ended o
generateContentForFormat(format, bv, o) ==
    IF o.kind = "throw" THEN ErrorEntry(format, o.message)
    ELSE IF o.kind = "empty"
    THEN \* content is undefined: content.type throws a TypeError, inside the try block
         ErrorEntry(format, "Cannot read properties of undefined")
    ELSE IF o.kind = "nontext" THEN FallbackEntry(format)
    ELSE IF Truthy(bv) /\ Has(bv, "terminology") /\ Len(bv.terminology) > 0
    THEN IF \E i \in 1..Len(bv.terminology) : ~IsStr(bv.terminology[i])
         THEN \* term.toLowerCase is not a function, inside the try block
              ErrorEntry(format, "term.toLowerCase is not a function")
         ELSE [format |-> format, content |-> o.text,
               consistencyScore |-> consistencyScore(bv.terminology, o.text)]
    ELSE IF Truthy(bv)
    THEN [format |-> format, content |-> o.text,
          consistencyScore |-> Frac(ScoreNoTerms, 1)]
    ELSE [format |-> format, content |-> o.text]

\* The promise of generateContentForFormat without its catch block: what the
\* gateway call throws rejects the promise
GenerationSettles_NoCatch(format, bv, o) ==
    IF o.kind = "throw"
    THEN [state |-> "rejected", format |-> format, outcome |-> o, reason |-> o.message]
    ELSE [state |-> "fulfilled", format |-> format, outcome |-> o,
          value |-> generateContentForFormat(format, bv, o)]

\* The promise of generateContentForFormat once its gateway call has ended o:
\* the try, catch and fallback all end in a return, so it is fulfilled
GenerationSettles(format, bv, o) ==
    [state |-> "fulfilled", format |-> format, outcome |-> o,
     value |-> generateContentForFormat(format, bv, o)]

\* The promise generateContentForFormat returns, at the moment it is made
GenerateBegin(format, bv) ==
    IF PromptThrows(bv)
    THEN [state |-> "rejected", format |-> format,
          reason |-> "Cannot read properties of undefined (reading 'join')"]
    ELSE [state |-> "pending", format |-> format]

----------------------------------------------------------------------------
(* The requests the two screens build: BrandVoiceUpload.handleAnalyze and   *)
(* ContentStudio.handleGenerate                                              *)

SlotCount == 3
MinExamples == 2

\* What a slot may hold: nothing, a typed or uploaded text, an uploaded image
TextValues == {"", " ", "We ship fast"}
ImageData == "data:image/jpeg;base64,QUJD"
SlotValues ==
    {Null} \cup {[type |-> "text", content |-> Str(v)] : v \in TextValues}
           \cup {[type |-> "image", content |-> Str(ImageData)]}

\* ex && ex.content && ex.content.trim().length > 0
HasContent(ex) == Truthy(ex) /\ Truthy(Field(ex, "content")) /\ NonBlank(ex.content)

\* handleAnalyze's validExamples
validExamples(slots) == SelectSeq(slots, HasContent)

\* The test of handleAnalyze with one example taken for enough
TooFewExamples_One(valid) == Len(valid) < 1

\* validExamples.length < 2
TooFewExamples(valid) == Len(valid) < MinExamples

\* ex.content.match(/data:([^;]+)/)?.[1] || 'image/png'
MimeTypeOf(content) ==
    IF content = Str(ImageData) THEN Str("image/jpeg") ELSE Str("image/png")

\* handleAnalyze's formattedExamples; JSON drops the undefined mimeType of a text
formattedExamples(valid) ==
    [i \in 1..Len(valid) |->
        IF valid[i].type = "image"
        THEN [type |-> valid[i].type, content |-> valid[i].content,
              mimeType |-> MimeTypeOf(valid[i].content)]
        ELSE [type |-> valid[i].type, content |-> valid[i].content]]

\* The body handleAnalyze posts to /api/generate
AnalyzeBody(formatted) ==
    [topic |-> "dummy", industry |-> "SaaS", formats |-> <<>>,
     brandVoiceExamples |-> formatted]

\* What the topic and industry fields may hold, and the formats on offer
StudioTopics == {"", "AI in banking"}
StudioIndustries == {"", " FinTech "}
StudioFormats == {"blog"}

\* s.trim(), for the strings of the fields
Trimmed == (" " :> "") @@ (" FinTech " :> "FinTech")
Trim(s) == IF s \in DOMAIN Trimmed THEN Trimmed[s] ELSE s

\* The selections toggleFormat can make: lists of formats without repetition
StudioSelections ==
    {<<>>} \cup {<<f>> : f \in StudioFormats}
           \cup {p \in StudioFormats \X StudioFormats : p[1] # p[2]}

\* The test of handleGenerate without the industry
GenerateRefused_NoIndustry(topic_, industry_, selected) ==
    Trim(topic_) = "" \/ Len(selected) = 0

\* !topic.trim() || !industry.trim() || selectedFormats.length === 0
GenerateRefused(topic_, industry_, selected) ==
    Trim(topic_) = "" \/ Trim(industry_) = "" \/ Len(selected) = 0

\* The body handleGenerate posts to /api/generate; JSON drops the undefined
\* brandVoiceExamples of an empty list and the undefined brandVoice of null
GenerateBody(topic_, industry_, selected, examples, bv) ==
    LET base == [topic |-> topic_, industry |-> Trim(industry_), formats |-> selected]
    IN IF Len(examples) > 0 /\ Truthy(bv)
       THEN [topic |-> base.topic, industry |-> base.industry, formats |-> base.formats,
             brandVoiceExamples |-> examples, brandVoice |-> bv]
       ELSE IF Len(examples) > 0
       THEN [topic |-> base.topic, industry |-> base.industry, formats |-> base.formats,
             brandVoiceExamples |-> examples]
       ELSE IF Truthy(bv)
       THEN [topic |-> base.topic, industry |-> base.industry, formats |-> base.formats,
             brandVoice |-> bv]
       ELSE base

\* What onComplete may hand to ContentStudio: the examples of a calibration
\* and the profile the route returned for them
CalibratedExamples ==
    formattedExamples(<<[type |-> "text", content |-> Str("We ship fast")],
                        [type |-> "image", content |-> Str(ImageData)]>>)
Calibrations == {[examples |-> CalibratedExamples, analysis |-> DefaultProfile]}

\* The bodies handleAnalyze sends, over every filling of the slots
SentByHandleAnalyze ==
    { AnalyzeBody(formattedExamples(validExamples(slots))) :
        slots \in {f \in [1..SlotCount -> SlotValues] : ~TooFewExamples(validExamples(f))} }

\* The bodies handleGenerate sends, over the fields and the calibrations
SentByHandleGenerate ==
    { GenerateBody(y[1], y[2], y[3], y[4].examples, y[4].analysis) :
        y \in { x \in StudioTopics \X StudioIndustries \X StudioSelections
                         \X ({[examples |-> <<>>, analysis |-> Null]} \cup Calibrations) :
                    ~GenerateRefused(x[1], x[2], x[3]) } }

----------------------------------------------------------------------------
(* The requests *)

Topics == {"", "AI in banking"}
Industries == {"FinTech"}
FormatTags == {"email", "blog", "podcast"}
\* The format lists a request may carry: each tag at most once
FormatLists ==
    {f \in SeqsOf(FormatTags, 0, MaxFormats) :
        \A i, j \in 1..Len(f) : f[i] = f[j] => i = j}

RawHello == Str("We ship fast")
RawEmpty == Str("")
TextExample == [type |-> "text", content |-> Str("Our alpha platform")]
EmptyExample == [type |-> "text", content |-> Str("")]
ImageExample == [type |-> "image", content |-> Str("data:image/jpeg;base64,QUJD")]
MixedExample ==
    [type |-> "mixed", content |-> Str("data:image/png;base64,REVG"),
     textContent |-> Str("Launch banner")]

\* An image whose content is plain base64 and whose type is given beside it
TypedImageExample ==
    [type |-> "image", content |-> Str("R0hJ"), mimeType |-> Str("image/webp")]
\* An image slot with no upload yet but a caption
CaptionOnlyExample ==
    [type |-> "mixed", content |-> Str(""), textContent |-> Str("Launch banner")]
\* A text of white space only
BlankExample == [type |-> "text", content |-> Str(" ")]

ExampleLists ==
    { <<>>, <<RawHello>>, <<RawEmpty>>, <<TextExample>>, <<EmptyExample>>,
      <<ImageExample>>, <<MixedExample>>, <<RawHello, TextExample>>,
      <<TextExample, RawHello>>, <<TypedImageExample, CaptionOnlyExample>>,
      <<BlankExample, TextExample>> }

\* The precomputed profiles a caller may send as body.brandVoice
SuppliedProfiles ==
    { [tone |-> "bold", style |-> "direct", terminology |-> <<Str("alpha")>>,
       structure |-> "headline first"],
      [tone |-> "bold", style |-> "direct",
       terminology |-> <<Str("alpha"), Str("beta"), Str("gamma"), Str("delta")>>,
       structure |-> "headline first"],
      [tone |-> "bold"] }

\* A body that is not JSON: request.json() throws
InvalidJson == [invalid |-> TRUE]

MkBody(t, i, f, e, b) ==
    LET o == [topic |-> t, industry |-> i, formats |-> f,
              brandVoiceExamples |-> e, brandVoice |-> b]
    IN [k \in {k \in DOMAIN o : o[k] # {}} |-> CHOOSE v \in o[k] : TRUE]

\* The example lists and the profile that are sent together with formats;
\* a request without formats carries any of the lists and profiles.  The
\* bodies the two screens build are requests too
ExampleListsWithFormats == {<<RawHello>>, <<TextExample, RawHello>>}
ProfilesWithExamples ==
    {p \in SuppliedProfiles : Has(p, "terminology") /\ Len(p.terminology) = 1}

Bodies ==
    {InvalidJson} \cup
    { b \in { MkBody(t, i, f, e, p) :
                t \in Opt(Topics), i \in Opt(Industries), f \in Opt(FormatLists),
                e \in Opt(ExampleLists), p \in Opt(SuppliedProfiles) } :
        (/\ Has(b, "formats") /\ Len(b.formats) > 0
         /\ Has(b, "brandVoiceExamples") /\ Len(b.brandVoiceExamples) > 0)
            => /\ b.brandVoiceExamples \in ExampleListsWithFormats
               /\ Has(b, "brandVoice") => b.brandVoice \in ProfilesWithExamples }
    \cup SentByHandleAnalyze \cup SentByHandleGenerate

----------------------------------------------------------------------------
(* POST *)

NoResponse == [pending |-> TRUE]

\* NextResponse.json({ error }, { status })
ErrorResponse(status, error) == [status |-> status, body |-> [error |-> error]]

\* NextResponse.json({ contents, brandVoiceAnalysis }): JSON drops an undefined key
OkResponse(contents, bv) ==
    [status |-> 200,
     body |-> IF bv = Undefined THEN [contents |-> contents]
              ELSE [contents |-> contents, brandVoiceAnalysis |-> bv]]

\* POST without its credential check
CredentialMissing_Unchecked(key) == FALSE

\* if (!process.env.ANTHROPIC_API_KEY)
CredentialMissing(key) == ~key

\* A string field of the body as the falsiness tests see it: absent reads as ""
StringField(b, k) == IF Has(b, k) THEN b[k] ELSE ""

\* A list field of the body as the length tests see it: absent reads as empty
ListField(b, k) == IF Has(b, k) THEN b[k] ELSE <<>>

\* !formats || formats.length === 0
NoFormats(b) == Len(ListField(b, "formats")) = 0

\* The analyze-only test with the topic demanded as well
AnalyzeOnly_NeedsTopic(b, examples) ==
    Len(examples) > 0 /\ NoFormats(b) /\ StringField(b, "topic") # ""

\* The analyze-only test: examples present and no formats
AnalyzeOnly(b, examples) == Len(examples) > 0 /\ NoFormats(b)

\* The validation without its test of the topic
ValidationFails_NoTopic(b) ==
    \/ StringField(b, "industry") = ""
    \/ NoFormats(b)

\* !topic || !industry || !formats || formats.length === 0
ValidationFails(b) ==
    \/ StringField(b, "topic") = ""
    \/ StringField(b, "industry") = ""
    \/ NoFormats(b)

\* The resolution with the caller's profile never read
SuppliedProfile_Ignored(b) == Undefined

\* The profile POST resolves without the analyzer: body.brandVoice, if truthy
SuppliedProfile(b) ==
    IF Truthy(Field(b, "brandVoice")) THEN b.brandVoice ELSE Undefined

\* formats.map(format => generateContentForFormat(topic, industry, format, brandVoice))
generationPromises(formats, bv) ==
    [i \in 1..Len(formats) |-> GenerateBegin(formats[i], bv)]

\* The gateway calls the fan-out makes, in order
GenerationCalls(promises) ==
    LET C[i \in 0..Len(promises)] ==
            IF i = 0 THEN <<>>
            ELSE IF promises[i].state = "pending"
                 THEN Append(C[i-1], [purpose |-> "generation",
                                      format |-> promises[i].format, index |-> i])
                 ELSE C[i-1]
    IN C[Len(promises)]

\* The calls with the prompt each one sends: the template literal is filled
\* from the topic, the industry and the profile POST passes to every invocation
GenerationPrompts(calls, b, bv) ==
    [k \in 1..Len(calls) |->
        [purpose |-> calls[k].purpose, format |-> calls[k].format,
         index |-> calls[k].index,
         prompt |-> [topic |-> Field(b, "topic"), industry |-> Field(b, "industry"),
                     format |-> calls[k].format, brandVoice |-> bv]]]

\* Promise.all(generationPromises): rejected as soon as one promise is,
\* fulfilled when all are
AllState(promises) ==
    IF \E i \in 1..Len(promises) : promises[i].state = "rejected" THEN "rejected"
    ELSE IF \A i \in 1..Len(promises) : promises[i].state = "fulfilled" THEN "fulfilled"
    ELSE "pending"

\* The reason Promise.all rejects with: that of the first promise found rejected
AllReason(promises) ==
    LET i == CHOOSE a \in 1..Len(promises) :
                 /\ promises[a].state = "rejected"
                 /\ \A c \in 1..Len(promises) : promises[c].state = "rejected" => a <= c
    IN promises[i].reason

\* results.filter(content => content !== null)
Contents(promises) ==
    SelectSeq([i \in 1..Len(promises) |-> promises[i].value], LAMBDA v : v # Null)

\* POST without its catch block: the exception leaves the handler
InternalError_Propagates(message) == [threw |-> message]

\* The catch block of POST
InternalError(message) == ErrorResponse(500, <<"Internal server error:", message>>)

\* What POST returns once Promise.all has settled
SettledResponse(promises, bv) ==
    IF AllState(promises) = "rejected"
    THEN InternalError(AllReason(promises))
    ELSE OkResponse(Contents(promises), bv)

\* analyzeBrandVoice(examples) up to its await
AnalyzeBegin(examples) ==
    IF AnalyzeReturnsAtOnce(examples)
    THEN [state |-> "settled", examples |-> examples, called |-> FALSE,
          completion |-> [type |-> "return", value |-> DefaultProfile]]
    ELSE [state |-> "pending", examples |-> examples]

\* The gateway call analyzeBrandVoice makes
AnalysisCall(examples) == [purpose |-> "analysis", content |-> messageContent(examples)]

\* POST from the fan-out on, with the profile bv resolved: the promises are
\* made, and Promise.all is awaited unless it has settled already
FanOut(bv) ==
    LET promises == generationPromises(body.formats, bv)
    IN /\ brandVoice' = bv
       /\ generation' = promises
       /\ gatewayLog' = gatewayLog \o GenerationPrompts(GenerationCalls(promises), body, bv)
       /\ IF AllState(promises) = "pending"
          THEN pc' = "generate" /\ response' = response
          ELSE pc' = "responded" /\ response' = SettledResponse(promises, bv)

\* POST reads a body once the credential check has passed and the body parses
BodyRead == pc = "received" /\ ~CredentialMissing(apiKey) /\ body # InvalidJson

----------------------------------------------------------------------------
(* The actions: POST up to its first await or return *)

POST_NoCredential ==
    /\ pc = "received"
    /\ UNCHANGED uiVars
    /\ CredentialMissing(apiKey)
    /\ pc' = "responded"
    /\ response' = ErrorResponse(500, <<"ANTHROPIC_API_KEY is not configured">>)
    /\ UNCHANGED <<apiKey, body, examplesToUse, brandVoice, analysis, generation, gatewayLog>>

POST_BadBody ==
    /\ pc = "received"
    /\ UNCHANGED uiVars
    /\ ~CredentialMissing(apiKey)
    /\ body = InvalidJson
    /\ pc' = "responded"
    /\ response' = InternalError("Unexpected token in JSON")
    /\ UNCHANGED <<apiKey, body, examplesToUse, brandVoice, analysis, generation, gatewayLog>>

POST_AnalyzeOnly ==
    /\ BodyRead
    /\ UNCHANGED uiVars
    /\ LET examples == NormalizeExamples(body)
       IN /\ AnalyzeOnly(body, examples)
          /\ examplesToUse' = examples
          /\ analysis' = AnalyzeBegin(examples)
          /\ IF analysis'.state = "pending"
             THEN /\ gatewayLog' = Append(gatewayLog, AnalysisCall(examples))
                  /\ pc' = "analyzeOnly"
                  /\ UNCHANGED <<brandVoice, response>>
             ELSE /\ brandVoice' = analysis'.completion.value
                  /\ response' = OkResponse(<<>>, brandVoice')
                  /\ pc' = "responded"
                  /\ UNCHANGED gatewayLog
    /\ UNCHANGED <<apiKey, body, generation>>

POST_Invalid ==
    /\ BodyRead
    /\ UNCHANGED uiVars
    /\ LET examples == NormalizeExamples(body)
       IN /\ ~AnalyzeOnly(body, examples)
          /\ ValidationFails(body)
          /\ examplesToUse' = examples
    /\ pc' = "responded"
    /\ response' = ErrorResponse(400, <<"Missing required fields">>)
    /\ UNCHANGED <<apiKey, body, brandVoice, analysis, generation, gatewayLog>>

POST_Analyze ==
    /\ BodyRead
    /\ UNCHANGED uiVars
    /\ LET examples == NormalizeExamples(body)
       IN /\ ~AnalyzeOnly(body, examples)
          /\ ~ValidationFails(body)
          /\ Len(examples) > 0
          /\ examplesToUse' = examples
          /\ analysis' = AnalyzeBegin(examples)
          /\ IF analysis'.state = "pending"
             THEN /\ gatewayLog' = Append(gatewayLog, AnalysisCall(examples))
                  /\ pc' = "analyze"
                  /\ UNCHANGED <<brandVoice, generation, response>>
             ELSE FanOut(analysis'.completion.value)
    /\ UNCHANGED <<apiKey, body>>

POST_Generate ==
    /\ BodyRead
    /\ UNCHANGED uiVars
    /\ LET examples == NormalizeExamples(body)
       IN /\ ~AnalyzeOnly(body, examples)
          /\ ~ValidationFails(body)
          /\ Len(examples) = 0
          /\ examplesToUse' = examples
    /\ FanOut(SuppliedProfile(body))
    /\ UNCHANGED <<apiKey, body, analysis>>

----------------------------------------------------------------------------
(* The actions: a gateway call ends and the code awaiting it runs on *)

\* The analysis call of an analyze-only request ends o
AnalysisEnds_AnalyzeOnly(o) ==
    /\ pc = "analyzeOnly"
    /\ UNCHANGED uiVars
    /\ analysis.state = "pending"
    /\ LET c == analyzeBrandVoice(o)
       IN /\ analysis' = [state |-> "settled", examples |-> analysis.examples,
                          called |-> TRUE, outcome |-> o, completion |-> c]
          /\ IF c.type = "throw"
             THEN response' = InternalError(c.message) /\ UNCHANGED brandVoice
             ELSE brandVoice' = c.value /\ response' = OkResponse(<<>>, c.value)
    /\ pc' = "responded"
    /\ UNCHANGED <<apiKey, body, examplesToUse, generation, gatewayLog>>

\* The analysis call of a generate request ends o
AnalysisEnds_Generate(o) ==
    /\ pc = "analyze"
    /\ UNCHANGED uiVars
    /\ analysis.state = "pending"
    /\ LET c == analyzeBrandVoice(o)
       IN /\ analysis' = [state |-> "settled", examples |-> analysis.examples,
                          called |-> TRUE, outcome |-> o, completion |-> c]
          /\ IF c.type = "throw"
             THEN /\ response' = InternalError(c.message)
                  /\ pc' = "responded"
                  /\ UNCHANGED <<brandVoice, generation, gatewayLog>>
             ELSE FanOut(c.value)
    /\ UNCHANGED <<apiKey, body, examplesToUse>>

\* The generation call of the i-th format ends o
GenerationEnds(i, o) ==
    /\ i \in 1..Len(generation)
    /\ UNCHANGED uiVars
    /\ generation[i].state = "pending"
    /\ LET promises == [generation EXCEPT ![i] =
                           GenerationSettles(generation[i].format, brandVoice, o)]
       IN /\ generation' = promises
          /\ IF pc = "generate" /\ AllState(promises) # "pending"
             THEN pc' = "responded" /\ response' = SettledResponse(promises, brandVoice)
             ELSE UNCHANGED <<pc, response>>
    /\ UNCHANGED <<apiKey, body, examplesToUse, brandVoice, analysis, gatewayLog>>

----------------------------------------------------------------------------
(* The specification of the route: one request, the screen left alone *)

\* The fields of ContentStudio as useState initialises them
StudioIdle ==
    /\ topic = ""
    /\ industry = ""
    /\ selectedFormats = <<"blog">>
    /\ generatedContent = <<>>
    /\ isGenerating = FALSE
    /\ generateRequests = <<>>

\* ContentStudio as constructed: the input step, the calibration screen unused
ScreenIdle ==
    /\ step = "input"
    /\ uploadExamples = <<Null, Null, Null>>
    /\ isAnalyzing = FALSE
    /\ uploadRequests = <<>>
    /\ uploadAlert = <<>>
    /\ calibration = Null
    /\ uploadReads = <<>>
    /\ StudioIdle

Init ==
    /\ ScreenIdle
    /\ apiKey \in BOOLEAN
    /\ body \in Bodies
    /\ pc = "received"
    /\ examplesToUse = <<>>
    /\ brandVoice = Undefined
    /\ analysis = [state |-> "none"]
    /\ generation = <<>>
    /\ response = NoResponse
    /\ gatewayLog = <<>>

Next ==
    \/ POST_NoCredential
    \/ POST_BadBody
    \/ POST_AnalyzeOnly
    \/ POST_Invalid
    \/ POST_Analyze
    \/ POST_Generate
    \/ \E o \in AnalysisOutcomes : AnalysisEnds_AnalyzeOnly(o)
    \/ \E o \in AnalysisOutcomes : AnalysisEnds_Generate(o)
    \/ \E i \in 1..MaxFormats, o \in GenerationOutcomes : GenerationEnds(i, o)

Spec == Init /\ [][Next]_vars

----------------------------------------------------------------------------
(* BrandVoiceUpload: the calibration screen *)

\* The alerts of handleAnalyze
TooFewAlert == <<"Please provide at least 2 examples of your brand voice.">>
KeyAlert == <<"API key not configured. Please set ANTHROPIC_API_KEY in your .env.local file.">>
FailureAlert(message) == <<"Failed to analyze brand voice:", message, "Please try again.">>

\* How the fetch of handleAnalyze may end: an OK response with or without a
\* profile, a response that is not OK, or a network error
FetchOutcomes ==
    { [kind |-> "ok", data |-> [contents |-> <<>>, brandVoiceAnalysis |-> DefaultProfile]],
      [kind |-> "ok", data |-> [contents |-> <<>>, brandVoiceAnalysis |-> Null]],
      [kind |-> "notOk", error |-> "ANTHROPIC_API_KEY is not configured"],
      [kind |-> "notOk", error |-> "Internal server error"],
      [kind |-> "network", error |-> "Failed to fetch"] }

\* The message of the error handleAnalyze throws for a fetch that ended o
AnalyzeErrorMessage(o) ==
    IF o.kind = "ok" THEN "No brand voice analysis returned" ELSE o.error

\* The route at rest, for the behaviours of the screen
RouteIdle ==
    /\ apiKey = TRUE
    /\ body = InvalidJson
    /\ pc = "received"
    /\ examplesToUse = <<>>
    /\ brandVoice = Undefined
    /\ analysis = [state |-> "none"]
    /\ generation = <<>>
    /\ response = NoResponse
    /\ gatewayLog = <<>>

\* The fresh state of a BrandVoiceUpload that is mounted
UploadFresh == uploadExamples' = <<Null, Null, Null>> /\ isAnalyzing' = FALSE

\* The fetches once the screen that made them is unmounted: their handlers
\* still run, but their setIsAnalyzing no longer reaches a mounted screen
Unmounted(requests) ==
    [k \in 1..Len(requests) |-> [requests[k] EXCEPT !.live = FALSE]]

\* ContentStudio's button to the calibration screen: setStep("brand-voice")
OpenBrandVoice ==
    /\ step = "input"
    /\ step' = "brand-voice"
    /\ UploadFresh
    /\ UNCHANGED <<uploadRequests, uploadAlert, calibration, routeVars, uploadReads, studioVars>>

\* handleBack: onBack() sets the step to "input", which unmounts the screen
handleBack ==
    /\ step = "brand-voice"
    /\ step' = "input"
    /\ UploadFresh
    /\ uploadRequests' = Unmounted(uploadRequests)
    /\ UNCHANGED <<uploadAlert, calibration, routeVars, uploadReads, studioVars>>

\* handleExampleChange(index, value) from the textarea of a slot, which is
\* disabled while the slot holds an image
handleExampleChange(index, value) ==
    /\ step = "brand-voice"
    /\ ~TypeIs(uploadExamples[index], "image")
    /\ uploadExamples' =
           [uploadExamples EXCEPT ![index] = [type |-> "text", content |-> Str(value)]]
    /\ UNCHANGED <<step, isAnalyzing, uploadRequests, uploadAlert, calibration, routeVars, uploadReads, studioVars>>

\* handleAnalyze up to its await: the handler itself refuses fewer than two
\* examples, whether or not the button that calls it was enabled
handleAnalyze ==
    /\ step = "brand-voice"
    /\ LET valid == validExamples(uploadExamples)
       IN IF TooFewExamples(valid)
          THEN /\ uploadAlert' = TooFewAlert
               /\ UNCHANGED <<isAnalyzing, uploadRequests>>
          ELSE /\ Len(uploadRequests) < MaxRequests
               /\ isAnalyzing' = TRUE
               /\ uploadRequests' =
                      Append(uploadRequests,
                             [body |-> AnalyzeBody(formattedExamples(valid)),
                              state |-> "pending", live |-> TRUE])
               /\ UNCHANGED uploadAlert
    /\ UNCHANGED <<step, uploadExamples, calibration, routeVars, uploadReads, studioVars>>

\* The k-th fetch ends o and handleAnalyze runs on: onComplete for a profile,
\* an alert otherwise, and setIsAnalyzing(false) at the end.  onComplete is
\* ContentStudio's: it keeps the examples and the profile and sets the step
\* to "input", which unmounts the screen.
AnalyzeResponds(k, o) ==
    /\ k \in 1..Len(uploadRequests)
    /\ uploadRequests[k].state = "pending"
    /\ IF o.kind = "ok" /\ Truthy(Field(o.data, "brandVoiceAnalysis"))
       THEN /\ calibration' = [examples |-> uploadRequests[k].body.brandVoiceExamples,
                               analysis |-> o.data.brandVoiceAnalysis]
            /\ step' = "input"
            /\ UploadFresh
            /\ uploadRequests' =
                   Unmounted([uploadRequests EXCEPT ![k].state = "completed"])
            /\ UNCHANGED uploadAlert
       ELSE /\ uploadAlert' = IF o.kind # "ok" /\ o.error = "ANTHROPIC_API_KEY is not configured"
                              THEN KeyAlert
                              ELSE FailureAlert(AnalyzeErrorMessage(o))
            /\ uploadRequests' = [uploadRequests EXCEPT ![k].state = "failed"]
            /\ isAnalyzing' = IF uploadRequests[k].live THEN FALSE ELSE isAnalyzing
            /\ UNCHANGED <<calibration, step, uploadExamples>>
    /\ UNCHANGED <<routeVars, uploadReads, studioVars>>

\* The screen is open with its slots filled in some way: every filling is one
\* that typing and file uploads produce
UploadInit ==
    /\ RouteIdle
    /\ step = "brand-voice"
    /\ uploadExamples \in [1..SlotCount -> SlotValues]
    /\ isAnalyzing = FALSE
    /\ uploadRequests = <<>>
    /\ uploadAlert = <<>>
    /\ calibration = Null
    /\ uploadReads = <<>>
    /\ StudioIdle

UploadNext ==
    \/ OpenBrandVoice
    \/ handleBack
    \/ \E index \in 1..SlotCount, value \in TextValues : handleExampleChange(index, value)
    \/ handleAnalyze
    \/ \E k \in 1..MaxRequests, o \in FetchOutcomes : AnalyzeResponds(k, o)

UploadSpec == UploadInit /\ [][UploadNext]_vars

----------------------------------------------------------------------------
(* BrandVoiceUpload filled by file uploads *)

\* The files a user may pick: what FileReader hands to onload, and the type
\* handleFileUpload gives the example
Files ==
    { [type |-> "image", result |-> ImageData],
      [type |-> "text", result |-> "We ship fast"] }

\* handleFileUpload(index, file): a reader is started; its onload closes over
\* the handleExampleChange of this render, and so over this render's examples
handleFileUpload(index, file) ==
    /\ step = "brand-voice"
    /\ Len(uploadReads) < MaxUploads
    /\ uploadReads' = Append(uploadReads,
                             [index |-> index, type |-> file.type,
                              value |-> Str(file.result),
                              examples |-> uploadExamples, state |-> "pending"])
    /\ UNCHANGED <<step, uploadExamples, isAnalyzing, uploadRequests, uploadAlert,
                   calibration, routeVars, studioVars>>

\* The r-th read ends while the screen is open: onload calls
\* handleExampleChange(index, value, type), which copies the examples it
\* closed over, sets the slot and calls setExamples
ReadEnds(r) ==
    /\ r \in 1..Len(uploadReads)
    /\ uploadReads[r].state = "pending"
    /\ step = "brand-voice"
    /\ uploadExamples' =
           [uploadReads[r].examples EXCEPT ![uploadReads[r].index] =
               [type |-> uploadReads[r].type, content |-> uploadReads[r].value]]
    /\ uploadReads' = [uploadReads EXCEPT ![r].state = "done"]
    /\ UNCHANGED <<step, isAnalyzing, uploadRequests, uploadAlert, calibration,
                   routeVars, studioVars>>

\* The screen just opened: no slot is filled
ReadInit ==
    /\ RouteIdle
    /\ step = "brand-voice"
    /\ uploadExamples = <<Null, Null, Null>>
    /\ isAnalyzing = FALSE
    /\ uploadRequests = <<>>
    /\ uploadAlert = <<>>
    /\ calibration = Null
    /\ uploadReads = <<>>
    /\ StudioIdle

ReadNext ==
    \/ \E index \in 1..SlotCount, file \in Files : handleFileUpload(index, file)
    \/ \E r \in 1..MaxUploads : ReadEnds(r)

ReadSpec == ReadInit /\ [][ReadNext]_vars

----------------------------------------------------------------------------
(* ContentStudio: the input screen and the result cards *)

\* ContentStudio's brandVoiceExamples and brandVoice
StudioExamples == IF calibration = Null THEN <<>> ELSE calibration.examples
StudioBrandVoice == IF calibration = Null THEN Null ELSE calibration.analysis

\* The alerts of handleGenerate
FillAlert == <<"Please fill in all fields and select at least one format.">>
GenerateFailureAlert(message) ==
    <<"Failed to generate content:", message, "Please try again.">>

\* The profile the route may send back with the contents
ReturnedProfile == [DefaultProfile EXCEPT !.tone = "casual"]

\* The contents of an OK response: one entry per format of the request
EntriesFor(selected) ==
    [i \in 1..Len(selected) |-> [format |-> selected[i], content |-> <<"text">>]]

\* How the fetch of handleGenerate may end: an OK response, with the profile
\* when the request carried a calibration, a response that is not OK, or a
\* network error
GenerateOutcomes(b) ==
    { IF Has(b, "brandVoiceExamples")
      THEN [kind |-> "ok", data |-> [contents |-> EntriesFor(b.formats),
                                     brandVoiceAnalysis |-> ReturnedProfile]]
      ELSE [kind |-> "ok", data |-> [contents |-> EntriesFor(b.formats)]],
      [kind |-> "notOk", error |-> "ANTHROPIC_API_KEY is not configured"],
      [kind |-> "network", error |-> "Failed to fetch"] }

\* onChange of the topic field: setTopic(value)
setTopic(value) ==
    /\ step = "input"
    /\ topic' = value
    /\ UNCHANGED <<industry, selectedFormats, generatedContent, isGenerating,
                   generateRequests>>
    /\ UNCHANGED <<step, uploadExamples, isAnalyzing, uploadRequests, uploadAlert,
                   calibration, uploadReads, routeVars>>

\* handleIndustryChange(value): setIndustry(value)
handleIndustryChange(value) ==
    /\ step = "input"
    /\ industry' = value
    /\ UNCHANGED <<topic, selectedFormats, generatedContent, isGenerating,
                   generateRequests>>
    /\ UNCHANGED <<step, uploadExamples, isAnalyzing, uploadRequests, uploadAlert,
                   calibration, uploadReads, routeVars>>

\* toggleFormat(format): the format is taken out, or put at the end
toggleFormat(format) ==
    /\ step = "input"
    /\ selectedFormats' =
           IF \E i \in 1..Len(selectedFormats) : selectedFormats[i] = format
           THEN SelectSeq(selectedFormats, LAMBDA f : f # format)
           ELSE Append(selectedFormats, format)
    /\ UNCHANGED <<topic, industry, generatedContent, isGenerating, generateRequests>>
    /\ UNCHANGED <<step, uploadExamples, isAnalyzing, uploadRequests, uploadAlert,
                   calibration, uploadReads, routeVars>>

\* handleGenerate up to its await: it refuses blank fields with an alert, and
\* otherwise sets isGenerating and sends the request, whether or not one is
\* in flight
handleGenerate ==
    /\ IF GenerateRefused(topic, industry, selectedFormats)
       THEN /\ uploadAlert' = FillAlert
            /\ UNCHANGED <<isGenerating, generateRequests>>
       ELSE /\ Len(generateRequests) < MaxGenerations
            /\ isGenerating' = TRUE
            /\ generateRequests' =
                   Append(generateRequests,
                          GenerateBody(topic, industry, selectedFormats,
                                       StudioExamples, StudioBrandVoice))
            /\ UNCHANGED uploadAlert
    /\ UNCHANGED <<topic, industry, selectedFormats, generatedContent>>
    /\ UNCHANGED <<step, uploadExamples, isAnalyzing, uploadRequests, calibration,
                   uploadReads, routeVars>>

\* disabled={isGenerating || !topic.trim() || selectedFormats.length === 0}
GenerateDisabled == isGenerating \/ Trim(topic) = "" \/ Len(selectedFormats) = 0

\* The Generate button of the input screen
Generate == step = "input" /\ ~GenerateDisabled /\ handleGenerate

\* The Regenerate button of a result card: onRegenerate is handleGenerate, and
\* regeneratingIndex, which would disable the button, is never set
Regenerate == step = "results" /\ Len(generatedContent) > 0 /\ handleGenerate

\* The k-th fetch ends o and handleGenerate runs on without its finally block
GenerateResponds_NoFinally(k, o) ==
    /\ k \in 1..Len(generateRequests)
    /\ o \in GenerateOutcomes(generateRequests[k])
    /\ generateRequests' =
           [i \in 1..(Len(generateRequests) - 1) |->
               generateRequests[IF i < k THEN i ELSE i + 1]]
    /\ IF o.kind = "ok"
       THEN /\ generatedContent' = o.data.contents
            /\ calibration' = IF Truthy(Field(o.data, "brandVoiceAnalysis"))
                              THEN [examples |-> StudioExamples,
                                    analysis |-> o.data.brandVoiceAnalysis]
                              ELSE calibration
            /\ step' = "results"
            /\ uploadExamples' = <<Null, Null, Null>>
            /\ isAnalyzing' = FALSE
            /\ uploadRequests' = Unmounted(uploadRequests)
            /\ UNCHANGED uploadAlert
       ELSE /\ uploadAlert' = IF o.error = "ANTHROPIC_API_KEY is not configured"
                              THEN KeyAlert
                              ELSE GenerateFailureAlert(o.error)
            /\ UNCHANGED <<generatedContent, calibration, step,
                           uploadExamples, isAnalyzing, uploadRequests>>
    /\ UNCHANGED <<isGenerating, topic, industry, selectedFormats, uploadReads, routeVars>>

\* The k-th fetch ends o and handleGenerate runs on: the contents, the
\* profile if one came back and the step "results" for an OK response, an
\* alert otherwise, and setIsGenerating(false) at the end.  The step
\* "results" takes a calibration screen that is open off the page.
GenerateResponds(k, o) ==
    /\ k \in 1..Len(generateRequests)
    /\ o \in GenerateOutcomes(generateRequests[k])
    /\ generateRequests' =
           [i \in 1..(Len(generateRequests) - 1) |->
               generateRequests[IF i < k THEN i ELSE i + 1]]
    /\ isGenerating' = FALSE
    /\ IF o.kind = "ok"
       THEN /\ generatedContent' = o.data.contents
            /\ calibration' = IF Truthy(Field(o.data, "brandVoiceAnalysis"))
                              THEN [examples |-> StudioExamples,
                                    analysis |-> o.data.brandVoiceAnalysis]
                              ELSE calibration
            /\ step' = "results"
            /\ uploadExamples' = <<Null, Null, Null>>
            /\ isAnalyzing' = FALSE
            /\ uploadRequests' = Unmounted(uploadRequests)
            /\ UNCHANGED uploadAlert
       ELSE /\ uploadAlert' = IF o.error = "ANTHROPIC_API_KEY is not configured"
                              THEN KeyAlert
                              ELSE GenerateFailureAlert(o.error)
            /\ UNCHANGED <<generatedContent, calibration, step, uploadExamples,
                           isAnalyzing, uploadRequests>>
    /\ UNCHANGED <<topic, industry, selectedFormats, uploadReads, routeVars>>

\* onNewContent of the dashboard
onNewContent ==
    /\ step = "results"
    /\ step' = "input"
    /\ generatedContent' = <<>>
    /\ topic' = ""
    /\ UNCHANGED <<industry, selectedFormats, isGenerating, generateRequests>>
    /\ UNCHANGED <<uploadExamples, isAnalyzing, uploadRequests, uploadAlert,
                   calibration, uploadReads, routeVars>>

\* onComplete(examples, analysis) of the calibration screen: the examples and
\* the profile are kept and the step is "input", which unmounts the screen
onComplete(examples, profile) ==
    /\ step = "brand-voice"
    /\ calibration' = [examples |-> examples, analysis |-> profile]
    /\ step' = "input"
    /\ UploadFresh
    /\ uploadRequests' = Unmounted(uploadRequests)
    /\ UNCHANGED <<uploadAlert, uploadReads, studioVars, routeVars>>

\* All possible outcomes of the fetches of handleGenerate
AllGenerateOutcomes == UNION {GenerateOutcomes(b) : b \in SentByHandleGenerate}

\* ContentStudio as constructed
StudioInit ==
    /\ RouteIdle
    /\ ScreenIdle

StudioNext ==
    \/ \E value \in StudioTopics : setTopic(value)
    \/ \E value \in StudioIndustries : handleIndustryChange(value)
    \/ \E format \in StudioFormats : toggleFormat(format)
    \/ Generate
    \/ Regenerate
    \/ \E k \in 1..MaxGenerations, o \in AllGenerateOutcomes : GenerateResponds(k, o)
    \/ onNewContent
    \/ OpenBrandVoice
    \/ handleBack
    \/ \E c \in Calibrations : onComplete(c.examples, c.analysis)

StudioSpec == StudioInit /\ [][StudioNext]_vars

----------------------------------------------------------------------------
(* The request as the specification speaks of it, read off the body as sent *)

Responded == pc = "responded"

\* The body parsed: it has fields to speak of
BodyParses == body # InvalidJson

RequestedFormats == ListField(body, "formats")
SentExamples == ListField(body, "brandVoiceExamples")

\* topic, industry or formats is missing or empty
RequiredFieldMissing ==
    \/ StringField(body, "topic") = ""
    \/ StringField(body, "industry") = ""
    \/ Len(RequestedFormats) = 0

\* An analyze-only call: at least one example, and formats empty or absent
AnalyzeOnlyRequest == BodyParses /\ Len(SentExamples) >= 1 /\ Len(RequestedFormats) = 0

\* A generate-mode request that passes validation
ValidGenerateRequest == apiKey /\ BodyParses /\ ~RequiredFieldMissing

\* The gateway calls made so far for one purpose
CallsFor(purpose) == {k \in 1..Len(gatewayLog) : gatewayLog[k].purpose = purpose}

\* The content of an entry is one of the Generator's two error messages
IsErrorContent(content, format) ==
    \/ content = FallbackEntry(format).content
    \/ \E m \in {"overloaded", "term.toLowerCase is not a function",
                 "Cannot read properties of undefined"} :
          content = ErrorEntry(format, m).content

----------------------------------------------------------------------------
(* C1 *)

\* C1: for every generate-mode request that passes validation, the response
\* has a contents list with exactly one entry per requested format, and
\* contents[i].format = formats[i] at every position i, in whatever order the
\* per-format gateway calls ended.
C1_ContentsFollowFormats ==
    (Responded /\ ValidGenerateRequest) =>
        /\ Has(response.body, "contents")
        /\ Len(response.body.contents) = Len(RequestedFormats)
        /\ \A i \in 1..Len(RequestedFormats) :
              response.body.contents[i].format = RequestedFormats[i]

----------------------------------------------------------------------------
(* C2 *)

\* The gateway call failed for exactly the i-th format and returned text for
\* every other one
ExactlyOneFailed(i) ==
    /\ Len(generation) = Len(RequestedFormats)
    /\ i \in 1..Len(generation)
    /\ \A j \in 1..Len(generation) :
          /\ generation[j].state = "fulfilled"
          /\ generation[j].outcome.kind = (IF j = i THEN "throw" ELSE "text")

\* The score the specification gives a text under a profile: none without a
\* profile, 75 with no terms, else min(95, 70 + 25 * matched / terms)
SpecifiedScore(bv, text) ==
    IF ~Truthy(bv) THEN {}
    ELSE IF Len(bv.terminology) = 0 THEN {Frac(75, 1)}
    ELSE LET n == Len(bv.terminology)
             k == Cardinality({t \in 1..n : TextIncludes(text, bv.terminology[t])})
         IN {FracMin(Frac(95, 1), Frac(70 * n + 25 * k, n))}

\* The scores an entry carries: none or one
ScoreOf(entry) == IF Has(entry, "consistencyScore") THEN {entry.consistencyScore} ELSE {}

\* C2: in a generate-mode request in which the gateway call fails for exactly
\* one format and succeeds for the others, the response is a success with one
\* entry per format, the failed format's entry carries an inline error
\* message, and every other entry carries its generated text and the score
\* that text has under the profile.
C2_OneFailureIsContained ==
    \A i \in 1..Len(generation) :
        (Responded /\ ValidGenerateRequest /\ ExactlyOneFailed(i)) =>
            /\ response.status = 200
            /\ Len(response.body.contents) = Len(RequestedFormats)
            /\ IsErrorContent(response.body.contents[i].content, RequestedFormats[i])
            /\ \A j \in 1..Len(generation) : j # i =>
                  /\ response.body.contents[j].content = generation[j].outcome.text
                  /\ ScoreOf(response.body.contents[j])
                        = SpecifiedScore(brandVoice, generation[j].outcome.text)

----------------------------------------------------------------------------
(* C3 *)

\* C3: generateContentForFormat never throws or rejects, whatever profile the
\* orchestrator passes to it: no generation promise is ever rejected.
C3_GeneratorNeverRejects ==
    \A i \in 1..Len(generation) : generation[i].state # "rejected"

----------------------------------------------------------------------------
(* C4 *)

\* No part of the reply text parses as JSON
NoParsableJson(t) ==
    \A a \in 1..Len(t) : \A b \in a..Len(t) : ~JsonParse(SubSeq(t, a, b)).ok

\* C4: analyzeBrandVoice completes by returning, never by throwing, and it
\* returns exactly the default profile whenever the gateway call threw or the
\* reply holds no parsable JSON.
C4_AnalyzerNeverFailsOutward ==
    analysis.state = "settled" =>
        /\ analysis.completion.type = "return"
        /\ (/\ analysis.called
            /\ \/ analysis.outcome.kind = "throw"
               \/ /\ analysis.outcome.kind = "text"
                  /\ NoParsableJson(analysis.outcome.text))
           => analysis.completion.value = DefaultProfile

\* The analyzer has returned the default profile for a reply without any JSON
C4_Witness ==
    /\ analysis.state = "settled"
    /\ analysis.called
    /\ analysis.outcome.kind = "text"
    /\ NoParsableJson(analysis.outcome.text)
    /\ analysis.completion = [type |-> "return", value |-> DefaultProfile]

----------------------------------------------------------------------------
(* C5 *)

\* C5: for an example list with no valid (non-empty) entry, analyze returns
\* exactly the default profile at once, without a gateway call.
C5_NoValidExampleNoGatewayCall ==
    (analysis.state # "none" /\ processedExamples(analysis.examples) = <<>>) =>
        /\ CallsFor("analysis") = {}
        /\ analysis.state = "settled"
        /\ analysis.completion = [type |-> "return", value |-> DefaultProfile]

----------------------------------------------------------------------------
(* C6 *)

\* C6: every profile the Analyzer returns has all four fields tone, style,
\* terminology and structure; a reply that parses but lacks a field, or is no
\* object of that shape, is replaced by the default profile.
C6_ProfileAlwaysComplete ==
    (analysis.state = "settled" /\ analysis.completion.type = "return") =>
        IsBrandVoiceAnalysis(analysis.completion.value)

----------------------------------------------------------------------------
(* C7 *)

\* C7: with the credential present, at least one example and formats empty or
\* absent, whatever topic and industry are, no Generator is invoked and the
\* response is a success with contents = [] and brandVoiceAnalysis = the
\* Analyzer's result.
C7_AnalyzeOnlyReturnsProfile ==
    (apiKey /\ AnalyzeOnlyRequest) =>
        /\ generation = <<>>
        /\ CallsFor("generation") = {}
        /\ Responded =>
              /\ response.status = 200
              /\ response.body.contents = <<>>
              /\ analysis.state = "settled"
              /\ analysis.completion.type = "return"
              /\ Has(response.body, "brandVoiceAnalysis")
              /\ response.body.brandVoiceAnalysis = analysis.completion.value

\* An analyze-only request that carries neither topic nor industry has been
\* answered with the profile
C7_Witness ==
    /\ apiKey /\ AnalyzeOnlyRequest /\ Responded
    /\ ~Has(body, "topic") /\ ~Has(body, "industry")
    /\ response.status = 200
    /\ response.body.contents = <<>>
    /\ Has(response.body, "brandVoiceAnalysis")

----------------------------------------------------------------------------
(* C8 *)

\* No gateway call has been made and neither component has been invoked
NoWorkDone ==
    /\ gatewayLog = <<>>
    /\ analysis.state = "none"
    /\ generation = <<>>

\* C8 as stated: every request that is no analyze-only call and in which
\* topic, industry or formats is missing or empty fails with status 400 and
\* makes no gateway call.
C8_AsStated ==
    (BodyParses /\ ~AnalyzeOnlyRequest /\ RequiredFieldMissing) =>
        /\ NoWorkDone
        /\ Responded => response.status = 400

\* C8, amended: with the credential present, every request that is no
\* analyze-only call and in which topic, industry or formats is missing or
\* empty fails with status 400 and makes no gateway call, for analysis or for
\* generation.
C8_ValidationBeforeAnyCall ==
    (apiKey /\ BodyParses /\ ~AnalyzeOnlyRequest /\ RequiredFieldMissing) =>
        /\ NoWorkDone
        /\ Responded => response.status = 400

\* A request with examples and formats but an empty topic has got its 400
C8_Witness ==
    /\ apiKey /\ BodyParses /\ Responded
    /\ Has(body, "topic") /\ body.topic = ""
    /\ Len(RequestedFormats) > 0
    /\ Len(SentExamples) > 0
    /\ response.status = 400
    /\ NoWorkDone

----------------------------------------------------------------------------
(* C9 *)

\* C9: with the credential absent the response has status 500 whatever the
\* body is, and nothing else is done in the request: the body is not
\* normalised, and neither the Analyzer nor the Generator is called.
C9_CredentialCheckedFirst ==
    ~apiKey =>
        /\ examplesToUse = <<>>
        /\ brandVoice = Undefined
        /\ NoWorkDone
        /\ pc \in {"received", "responded"}
        /\ Responded => response.status = 500

\* A request that has examples and formats to work on was refused for the
\* missing credential
C9_Witness ==
    /\ ~apiKey /\ Responded /\ BodyParses
    /\ Len(SentExamples) > 0
    /\ ~RequiredFieldMissing
    /\ response.status = 500

----------------------------------------------------------------------------
(* C10 *)

\* The i-th generation succeeded: its entry carries the gateway's text
Succeeded(i) ==
    /\ generation[i].state = "fulfilled"
    /\ generation[i].outcome.kind = "text"
    /\ generation[i].value.content = generation[i].outcome.text

\* C10: an entry of a successful generation has a score in [0, 95] when a
\* profile with terms was supplied, the score 75 when a profile without terms
\* was supplied, and no score when no profile was supplied.
C10_ScoreRange ==
    \A i \in 1..Len(generation) : Succeeded(i) =>
        LET entry == generation[i].value
        IN IF ~Truthy(brandVoice) THEN ~Has(entry, "consistencyScore")
           ELSE /\ Has(entry, "consistencyScore")
                /\ IF Len(brandVoice.terminology) = 0
                   THEN entry.consistencyScore = Frac(75, 1)
                   ELSE /\ FracLeq(Frac(0, 1), entry.consistencyScore)
                        /\ FracLeq(entry.consistencyScore, Frac(95, 1))

\* A text that holds one of the profile's two terms has been scored 82.5
C10_Witness ==
    \E i \in 1..Len(generation) :
        /\ Succeeded(i)
        /\ Truthy(brandVoice)
        /\ Len(brandVoice.terminology) = 2
        /\ generation[i].value.consistencyScore = Frac(165, 2)

----------------------------------------------------------------------------
(* C11 *)

\* How many entries of a terminology list occur in the text, case-insensitively
MatchedTerms(terminology, text) ==
    Cardinality({t \in 1..Len(terminology) : TextIncludes(text, terminology[t])})

\* C11: with a profile of n >= 1 terminology entries of which k occur
\* case-insensitively in the generated text, the score of the entry is
\* min(95, 70 + 25*k/n) exactly; it is 95 exactly when every entry is
\* matched, and no text that matches fewer or as many entries scores higher.
C11_ScoreFormula ==
    \A i \in 1..Len(generation) :
        (Succeeded(i) /\ Truthy(brandVoice) /\ Len(brandVoice.terminology) >= 1) =>
            LET terms == brandVoice.terminology
                n == Len(terms)
                k == MatchedTerms(terms, generation[i].outcome.text)
                entry == generation[i].value
            IN /\ Has(entry, "consistencyScore")
               /\ entry.consistencyScore = FracMin(Frac(95, 1), Frac(70 * n + 25 * k, n))
               /\ (entry.consistencyScore = Frac(95, 1)) <=> (k = n)
               /\ \A t \in GenerationTexts :
                     MatchedTerms(terms, t) <= k =>
                         FracLeq(consistencyScore(terms, t), entry.consistencyScore)

\* A text that holds two of the profile's four terms has been scored 82.5
C11_Witness ==
    \E i \in 1..Len(generation) :
        /\ Succeeded(i)
        /\ Truthy(brandVoice)
        /\ Len(brandVoice.terminology) = 4
        /\ MatchedTerms(brandVoice.terminology, generation[i].outcome.text) = 2
        /\ generation[i].value.consistencyScore = Frac(165, 2)

----------------------------------------------------------------------------
(* C12 *)

\* The places <<a, b>> of a profile object in a reply that has no other brace
ProfileObjectAt(t) ==
    {p \in (1..Len(t)) \X (1..Len(t)) :
        /\ p[1] < p[2]
        /\ \A j \in 1..Len(t) : t[j] \in {LBrace, RBrace} <=> j \in {p[1], p[2]}
        /\ t[p[1]] = LBrace /\ t[p[2]] = RBrace
        /\ JsonParse(SubSeq(t, p[1], p[2])).ok
        /\ IsBrandVoiceAnalysis(JsonParse(SubSeq(t, p[1], p[2])).value)}

\* The object stands between two code fences
IsFenced(t, p) ==
    /\ p[1] > 1 /\ t[p[1] - 1] = Fence
    /\ p[2] < Len(t) /\ t[p[2] + 1] = Fence

\* The object stands in prose, and the reply has no code fence
IsInProse(t, p) ==
    /\ \A j \in 1..Len(t) : t[j] # Fence
    /\ \E j \in 1..Len(t) : t[j] = Prose

----------------------------------------------------------------------------
(* C13 *)

\* The messages of the exceptions thrown inside POST so far
ExceptionMessages ==
    (IF apiKey /\ ~BodyParses THEN {"Unexpected token in JSON"} ELSE {})
    \cup {generation[i].reason :
             i \in {j \in 1..Len(generation) : generation[j].state = "rejected"}}

\* The validation of a generate-mode request was reached and failed
GenerateValidationFails ==
    apiKey /\ BodyParses /\ ~AnalyzeOnlyRequest /\ RequiredFieldMissing

\* C13: POST ends only by returning a response, and until then it waits on
\* nothing but the gateway; the response has status 400 with {error} exactly
\* when the generate-mode validation fails, status 500 with {error} exactly
\* when the credential is missing or an exception was thrown during the
\* request (whose message the error embeds), and is a success payload
\* {contents, brandVoiceAnalysis?} otherwise.
C13_AlwaysAResponse ==
    /\ ~Responded =>
          \/ pc = "received"
          \/ analysis.state = "pending"
          \/ \E i \in 1..Len(generation) : generation[i].state = "pending"
    /\ Responded =>
          /\ Has(response, "status")
          /\ (response.status = 400) <=> GenerateValidationFails
          /\ (response.status = 500) <=> (~apiKey \/ ExceptionMessages # {})
          /\ response.status \in {400, 500} => DOMAIN response.body = {"error"}
          /\ (apiKey /\ ExceptionMessages # {}) =>
                \E m \in ExceptionMessages :
                    response.body.error = <<"Internal server error:", m>>
          /\ response.status \notin {400, 500} =>
                /\ response.status = 200
                /\ Has(response.body, "contents")
                /\ DOMAIN response.body \subseteq {"contents", "brandVoiceAnalysis"}

\* A validated request was answered 500 for an exception thrown while the
\* generations were being started
C13_Witness ==
    /\ Responded /\ ValidGenerateRequest
    /\ ExceptionMessages # {}
    /\ Has(response, "status") /\ response.status = 500
    /\ response.body.error[1] = "Internal server error:"

----------------------------------------------------------------------------
(* C14 *)

\* C14: in generate mode no response, success or error, is produced while a
\* generation of the request is pending, and a failed gateway call of one
\* generation does not make POST return early: a success response carries
\* one settled generation per requested format.
C14_RespondsAfterAllGenerations ==
    Responded =>
        /\ \A i \in 1..Len(generation) : generation[i].state # "pending"
        /\ (ValidGenerateRequest /\ response.status = 200) =>
              /\ Len(generation) = Len(RequestedFormats)
              /\ \A i \in 1..Len(generation) : generation[i].state = "fulfilled"

\* A request of two formats was answered after the gateway call of the first
\* had failed and that of the second had returned text
C14_Witness ==
    /\ Responded /\ ValidGenerateRequest
    /\ Len(generation) = 2
    /\ generation[1].state = "fulfilled" /\ generation[1].outcome.kind = "throw"
    /\ generation[2].state = "fulfilled" /\ generation[2].outcome.kind = "text"
    /\ response.status = 200
    /\ Len(response.body.contents) = 2

----------------------------------------------------------------------------
(* C15 *)

\* The profile the specification resolves for the request: the Analyzer's
\* result, the caller's profile, or none
ResolvedProfile ==
    IF Len(SentExamples) > 0 THEN analysis.completion.value
    ELSE IF Has(body, "brandVoice") THEN body.brandVoice
    ELSE Undefined

\* C15: in generate mode, with examples present the profile used is the
\* Analyzer's result, also when the request carries a brandVoice; with no
\* examples and a brandVoice supplied, that brandVoice is used unchanged and
\* the Analyzer is not invoked; otherwise generation runs with no profile.
C15_ProfileResolution ==
    (ValidGenerateRequest /\ pc \in {"generate", "responded"}) =>
        /\ (Len(SentExamples) > 0) <=> (analysis.state = "settled")
        /\ (Len(SentExamples) = 0) <=> (analysis.state = "none")
        /\ brandVoice = ResolvedProfile
        /\ generation = [i \in 1..Len(generation) |->
                            IF generation[i].state = "fulfilled"
                            THEN GenerationSettles(RequestedFormats[i], ResolvedProfile,
                                                   generation[i].outcome)
                            ELSE GenerateBegin(RequestedFormats[i], ResolvedProfile)]

\* A request that carried both examples and a brandVoice was generated with
\* the Analyzer's profile, not the caller's
C15_Witness ==
    /\ ValidGenerateRequest /\ Responded
    /\ Len(SentExamples) > 0
    /\ Has(body, "brandVoice")
    /\ analysis.state = "settled"
    /\ brandVoice = analysis.completion.value
    /\ brandVoice # body.brandVoice
    /\ \E i \in 1..Len(generation) : Succeeded(i)

----------------------------------------------------------------------------
(* C17 *)

\* The gateway calls made so far for the generation of the i-th format
GenerationCallsOf(i) ==
    {k \in CallsFor("generation") : gatewayLog[k].index = i}

\* C17: within one request the gateway is called at most once for analysis
\* and exactly once per requested format for generation, so at most
\* 1 + |formats| times, and no call is issued a second time.
C17_NoRetry ==
    /\ Cardinality(CallsFor("analysis")) <= 1
    /\ \A i \in 1..Len(RequestedFormats) : Cardinality(GenerationCallsOf(i)) <= 1
    /\ Len(gatewayLog) <= 1 + Len(RequestedFormats)
    /\ (ValidGenerateRequest /\ pc \in {"generate", "responded"}) =>
          \A i \in 1..Len(RequestedFormats) : Cardinality(GenerationCallsOf(i)) = 1

----------------------------------------------------------------------------
(* C18 *)

\* A structured example: a record with a kind and a content that is a text or
\* an image payload
IsStructuredExample(ex) ==
    /\ IsObject(ex)
    /\ Has(ex, "type") /\ ex.type \in {"text", "image", "mixed"}
    /\ Has(ex, "content") /\ IsStr(ex.content)

\* C18: every element the orchestrator hands to the Analyzer is a structured
\* example whose content is the caller's text or image payload; no raw string
\* reaches the Analyzer, whatever brandVoiceExamples list was sent.
C18_NoLegacyShapeDownstream ==
    analysis.state # "none" =>
        \A i \in 1..Len(analysis.examples) : IsStructuredExample(analysis.examples[i])

----------------------------------------------------------------------------
(* C19 *)

\* The first balanced {...} span of a reply (its units do not nest): from the
\* first "{" to the first "}" after it
FirstBalancedSpan(t) ==
    LET opens == {i \in 1..Len(t) : t[i] = LBrace}
    IN IF opens = {} THEN <<>>
       ELSE LET i == CHOOSE a \in opens : \A b \in opens : a <= b
                closes == {j \in (i+1)..Len(t) : t[j] = RBrace}
            IN IF closes = {} THEN <<>>
               ELSE SubSeq(t, i, CHOOSE a \in closes : \A b \in closes : a <= b)

\* C19: for an unfenced reply whose first balanced {...} span is a valid
\* profile object, the Analyzer returns that object as the profile, also when
\* further text with braces of its own follows the object.
C19_FirstBalancedSpan ==
    (/\ analysis.state = "settled" /\ analysis.called
     /\ analysis.outcome.kind = "text"
     /\ \A j \in 1..Len(analysis.outcome.text) : analysis.outcome.text[j] # Fence
     /\ JsonParse(FirstBalancedSpan(analysis.outcome.text)).ok
     /\ IsBrandVoiceAnalysis(JsonParse(FirstBalancedSpan(analysis.outcome.text)).value))
    => analysis.completion =
           [type |-> "return",
            value |-> JsonParse(FirstBalancedSpan(analysis.outcome.text)).value]

----------------------------------------------------------------------------
(* C20 *)

\* An example that bears an image: of kind image or of kind mixed
ImageBearing(ex) == TypeIs(ex, "image") \/ TypeIs(ex, "mixed")

\* C20: the leading instruction block of the analysis prompt asks for the
\* analysis of the visual style if and only if at least one valid example is
\* of kind image or of kind mixed.
C20_VisualInstructionIffImageBearing ==
    \A k \in CallsFor("analysis") :
        LET valid == processedExamples(examplesToUse)
        IN gatewayLog[k].content[1].visual
               <=> \E i \in 1..Len(valid) : ImageBearing(valid[i])

----------------------------------------------------------------------------
(* C16 *)

\* The slots that hold content which is non-blank after trimming
FilledSlots ==
    {i \in 1..SlotCount :
        /\ uploadExamples[i] # Null
        /\ IsStr(uploadExamples[i].content)
        /\ uploadExamples[i].content.str \notin {"", " "}}

----------------------------------------------------------------------------
(* C21 *)

\* The elements handed to analyzeBrandVoice, each string wrapped as a text
SubmittedExamples ==
    [i \in 1..Len(examplesToUse) |->
        IF IsStr(examplesToUse[i]) THEN WrapText(examplesToUse[i]) ELSE examplesToUse[i]]

\* At least one of content and textContent is non-empty
IsValidExample(ex) ==
    Truthy(ex) /\ (Truthy(Field(ex, "content")) \/ Truthy(Field(ex, "textContent")))

\* An image or mixed example that has a caption
HasCaption(ex) == ImageBearing(ex) /\ NonBlank(Field(ex, "textContent"))

\* The labels of the blocks that carry a caption
CaptionLabels == {"image with description", "text description for image"}

\* C21: an example counts as valid for analysis exactly when its content or
\* its textContent is non-empty: the examples the prompt is built from are
\* the submitted ones with either field non-empty, and the caption of every
\* image or mixed example among them is in the prompt.
C21_ValidByContentOrCaption ==
    \A k \in CallsFor("analysis") :
        LET valid == SelectSeq(SubmittedExamples, IsValidExample)
            prompt == gatewayLog[k].content
        IN /\ processedExamples(examplesToUse) = valid
           /\ \A i \in 1..Len(valid) : HasCaption(valid[i]) =>
                 \E j \in 1..Len(prompt) :
                     /\ Has(prompt[j], "example") /\ prompt[j].example = i
                     /\ Has(prompt[j], "label") /\ prompt[j].label \in CaptionLabels

----------------------------------------------------------------------------
(* C22 *)

\* C22: the analysis prompt is one leading instruction block, then at least
\* one block for every example that passed the filter, in the order of the
\* examples, then one trailing JSON-format instruction block; no example
\* that passed the filter is left without a block.
C22_EveryKeptExampleHasABlock ==
    \A k \in CallsFor("analysis") :
        LET valid == processedExamples(examplesToUse)
            prompt == gatewayLog[k].content
            n == Len(prompt)
        IN /\ n >= 2
           /\ prompt[1].type = "text" /\ prompt[1].label = "instruction"
           /\ prompt[n].type = "text" /\ prompt[n].label = "respond with json"
           /\ \A j \in 2..(n - 1) :
                 Has(prompt[j], "example") /\ prompt[j].example \in 1..Len(valid)
           /\ \A j1, j2 \in 2..(n - 1) :
                 j1 < j2 => prompt[j1].example <= prompt[j2].example
           /\ \A i \in 1..Len(valid) : \E j \in 2..(n - 1) : prompt[j].example = i

----------------------------------------------------------------------------
(* C23 *)

\* C23: within one generate request every generation call is made with the
\* same topic, industry and profile, the profile is the same after the calls
\* as it was when they were made, and the response carries brandVoiceAnalysis
\* equal to that profile, leaving it out exactly when no profile was resolved.
C23_SameProfileEverywhere ==
    /\ \A k \in CallsFor("generation") :
          /\ gatewayLog[k].prompt.topic = Field(body, "topic")
          /\ gatewayLog[k].prompt.industry = Field(body, "industry")
          /\ gatewayLog[k].prompt.brandVoice = brandVoice
    /\ (Responded /\ ValidGenerateRequest) =>
          /\ Has(response.body, "brandVoiceAnalysis") <=> brandVoice # Undefined
          /\ Has(response.body, "brandVoiceAnalysis") =>
                response.body.brandVoiceAnalysis = brandVoice

----------------------------------------------------------------------------
(* C24 *)

\* An example with an image payload to send
HasImagePayload(ex) ==
    ImageBearing(ex) /\ IsStr(Field(ex, "content")) /\ Truthy(Field(ex, "content"))

\* The payload with the data-URL prefix taken off
StrippedPayload(ex) ==
    IF ex.content.str \in DOMAIN DataUrlParts
    THEN Str(DataUrlParts[ex.content.str].data)
    ELSE ex.content

\* The media type of an example: the one supplied, else the one its data URL
\* names, else image/png
SpecifiedMediaType(ex) ==
    IF Truthy(Field(ex, "mimeType")) THEN ex.mimeType
    ELSE IF ex.content.str \in DOMAIN DataUrlParts
    THEN Str(DataUrlParts[ex.content.str].type)
    ELSE Str("image/png")

\* C24: for every image or mixed example with a payload the prompt has an
\* image block whose data is the payload without its data-URL prefix and
\* whose media type is the supplied mimeType, else the type named in the
\* data-URL prefix, else image/png.
C24_ImageBlockPayloadAndType ==
    \A k \in CallsFor("analysis") :
        LET valid == processedExamples(examplesToUse)
            prompt == gatewayLog[k].content
        IN \A i \in 1..Len(valid) : HasImagePayload(valid[i]) =>
              \E j \in 1..Len(prompt) :
                  /\ prompt[j].type = "image" /\ prompt[j].example = i
                  /\ prompt[j].data = StrippedPayload(valid[i])
                  /\ prompt[j].media_type = SpecifiedMediaType(valid[i])

----------------------------------------------------------------------------
(* C27 *)

\* C27: whenever the gateway call for a format returned a text, the entry's
\* content is exactly that text, whatever the profile; an entry has one of
\* the error messages as content only if its gateway call threw or did not
\* return a text.
C27_TextReplyIsTheContent ==
    \A i \in 1..Len(generation) :
        generation[i].state = "fulfilled" =>
            /\ generation[i].outcome.kind = "text" =>
                  generation[i].value.content = generation[i].outcome.text
            /\ IsErrorContent(generation[i].value.content, generation[i].format) =>
                  generation[i].outcome.kind # "text"

----------------------------------------------------------------------------
(* C30 *)

\* C30: a requested format that has no entry in formatInstructions is not
\* rejected: the request passes validation, the gateway is called exactly
\* once for that format, and the response has an entry tagged with the
\* format at the format's position.
C30_UnknownFormatIsGenerated ==
    \A i \in 1..Len(RequestedFormats) :
        (ValidGenerateRequest /\ RequestedFormats[i] \notin formatInstructions) =>
            /\ pc \in {"generate", "responded"} =>
                  Cardinality(GenerationCallsOf(i)) = 1
            /\ Responded =>
                  /\ response.status = 200
                  /\ Len(response.body.contents) >= i
                  /\ response.body.contents[i].format = RequestedFormats[i]

----------------------------------------------------------------------------
(* C28 *)

\* C28: every request the screens send is accepted by the route.  A body
\* built by handleGenerate is never taken for an analyze-only call and never
\* answered 400: with the credential present it goes on to the Generator,
\* once per selected format.  A body built by handleAnalyze (no formats, at
\* least 2 examples) is taken for an analyze-only call: the Analyzer is
\* invoked, the Generator never, and the answer is the profile with an empty
\* contents list.
C28_UiRequestsAccepted ==
    /\ body \in SentByHandleGenerate =>
          /\ pc # "analyzeOnly"
          /\ Responded => response.status # 400
          /\ (apiKey /\ pc # "received") =>
                \/ pc = "analyze" /\ analysis.state = "pending"
                \/ Len(generation) = Len(body.formats)
    /\ body \in SentByHandleAnalyze =>
          /\ Len(body.brandVoiceExamples) >= MinExamples
          /\ generation = <<>> /\ CallsFor("generation") = {}
          /\ pc \notin {"analyze", "generate"}
          /\ (apiKey /\ pc # "received") => analysis.state # "none"
          /\ (apiKey /\ Responded) =>
                /\ response.status = 200
                /\ response.body.contents = <<>>
                /\ Has(response.body, "brandVoiceAnalysis")

\* A request of handleGenerate that carries a calibration has been answered
\* with contents
C28_Witness ==
    /\ Responded /\ body \in SentByHandleGenerate
    /\ Has(body, "brandVoiceExamples")
    /\ response.status = 200 /\ Len(response.body.contents) = Len(body.formats)

----------------------------------------------------------------------------
(* C25 *)

\* C25: in ContentStudio, whatever the user does (Generate, Regenerate on a
\* result card, New Content) and whenever the responses arrive, at most one
\* request of handleGenerate is in flight, and isGenerating is true exactly
\* while one is.
C25_OneGenerateInFlight ==
    /\ Len(generateRequests) <= 1
    /\ isGenerating <=> Len(generateRequests) >= 1

----------------------------------------------------------------------------
(* C26 *)

\* Every read has ended, and no two uploads went into the same slot
UploadsIntoDistinctSlotsDone ==
    /\ \A r \in 1..Len(uploadReads) : uploadReads[r].state = "done"
    /\ \A r1, r2 \in 1..Len(uploadReads) :
          r1 # r2 => uploadReads[r1].index # uploadReads[r2].index

\* C26: when files are uploaded into distinct slots of BrandVoiceUpload and
\* their reads have ended, in whatever order and however the uploads and the
\* reads interleave, every slot that received a file holds that file's
\* content.
C26_NoUploadIsLost ==
    UploadsIntoDistinctSlotsDone =>
        \A r \in 1..Len(uploadReads) :
            uploadExamples[uploadReads[r].index] =
                [type |-> uploadReads[r].type, content |-> uploadReads[r].value]

----------------------------------------------------------------------------
(* C29 *)

\* C29: when a request of handleGenerate fails (a response that is not OK,
\* or a network error), step, generatedContent, brandVoice and
\* brandVoiceExamples stay as they are and isGenerating is false afterwards;
\* an OK response sets generatedContent to its contents and the step to
\* "results", and nothing else ever sets the step to "results".
C29_FailureLeavesTheScreenAlone ==
    [][ /\ \A k \in 1..Len(generateRequests) :
           \A o \in GenerateOutcomes(generateRequests[k]) :
              GenerateResponds(k, o) =>
                  IF o.kind = "ok"
                  THEN step' = "results" /\ generatedContent' = o.data.contents
                  ELSE /\ step' = step
                       /\ generatedContent' = generatedContent
                       /\ calibration' = calibration
                       /\ isGenerating' = FALSE
        /\ (step' = "results" /\ step # "results") =>
              \E k \in 1..Len(generateRequests) :
                 \E o \in GenerateOutcomes(generateRequests[k]) :
                    o.kind = "ok" /\ GenerateResponds(k, o) ]_vars

\* A regeneration has failed: the alert is up, the earlier contents are
\* still shown and isGenerating is false again
C29_Witness ==
    /\ step = "results"
    /\ uploadAlert = GenerateFailureAlert("Failed to fetch")
    /\ generatedContent # <<>>
    /\ generateRequests = <<>>
    /\ ~isGenerating

====
